---------------------------- MODULE Spec2Model ----------------------------
(***************************************************************************)
(* substitution_pdf_server: the refresh loop (src/src/main.rs), the        *)
(* change-detecting json store (src/src/json_handler.rs) and the table     *)
(* reconstruction of substitution_pdf_to_json (lib.rs).                    *)
(*                                                                         *)
(* Conventions.  A Rust String is a sequence of one-character strings, so  *)
(* that is_empty, starts_with, push_str, find and split are computed.      *)
(* Option<T> is a sequence of length 0 (None) or 1 (Some(x)).  A function  *)
(* that can return Err or panic yields a record [tag, val] with tag        *)
(* "Ok", "Err" or "Panic".                                                 *)
(***************************************************************************)
EXTENDS Integers, Sequences, FiniteSets, TLC

VARIABLES
    jsons,       \* JsonHandler.jsons : Schoolday -> Option<String>
    hashes,      \* JsonHandler.hashes: Schoolday -> Option<String>
    hashesLock,  \* the RwLock around hashes: [readers, writer]
    jsonsLock,   \* the RwLock around jsons : [readers, writer]
    tasks,       \* the spawned check_weekday_pdf tasks
    counter,     \* the refresh loop's counter
    weekday,     \* the local calendar weekday the loop last read
    disk,        \* temporary artifacts under TEMP_ROOT_DIR
    dbPending,   \* spawned update_db tasks that have not run yet
    hist,        \* per task: what the store held when update was entered
    jsonSource,  \* per day: the pdf bytes the stored json was built from
    last,        \* per day: how the last call of update that ended, ended
    updates,     \* calls of JsonHandler::update made so far
    input,       \* library calls: the argument (tables, text)
    output,      \* library calls: the outcome
    lookups,     \* the requests served: get_json and the http endpoint
    dbFailed     \* update_db tasks whose insert failed and was logged

vars == <<jsons, hashes, hashesLock, jsonsLock, tasks, counter, weekday,
          disk, dbPending, hist, jsonSource, last, updates, input, output, lookups, dbFailed>>

---------------------------------------------------------------------------
(* Option and Result *)

None == <<>>

Some(x) == <<x>>

Ok(x) == [tag |-> "Ok", val |-> x]

Err(why) == [tag |-> "Err", val |-> why]

Panic(why) == [tag |-> "Panic", val |-> why]

---------------------------------------------------------------------------
(* Strings *)

\* str.is_empty()
IsEmpty(s) == Len(s) = 0

\* str.starts_with(c)
StartsWith(s, c) == Len(s) > 0 /\ s[1] = c

\* push_str of the part alone, the line break forgotten
PushLineNoBreak(block, part) == block \o part

\* block.push_str(&format!("\n{}", part))
PushLine(block, part) == block \o <<"\n">> \o part

---------------------------------------------------------------------------
(* substitution_pdf_to_json: SubstitutionColumn and table reconstruction *)

\* for lesson_idx in 0..5
NumLessons == 5

\* the highest block of a SubstitutionColumn: block_0 .. block_5
LastBlock == 5

Range(s) == {s[i] : i \in DOMAIN s}

\* SubstitutionColumn::new: six blocks, all None
NewColumn == [b \in 0..LastBlock |-> None]

\* The body of `for (i, substitution_part) in table[row][1..].iter().enumerate()`:
\* cells is table[row][1..], i counts from 1 here (from 0 in the code).
\* classes[i] panics when the row has more cells than the header has classes;
\* a row with fewer cells simply ends the iteration early.
RECURSIVE ProcessCells(_, _, _, _, _)
ProcessCells(entries, classes, cells, i, lesson_idx) ==
    IF i > Len(cells) THEN Ok(entries)
    ELSE IF i > Len(classes) THEN Panic("classes[i]: index out of bounds")
    ELSE IF lesson_idx > LastBlock THEN Panic("more then 5 lessons used")
    ELSE LET class == classes[i]
             substitution_part == cells[i]
             block_option == entries[class][lesson_idx]
             updated == IF IsEmpty(substitution_part) THEN block_option
                        ELSE IF block_option # None
                             THEN Some(PushLine(block_option[1], substitution_part))
                             ELSE Some(substitution_part)
         IN ProcessCells([entries EXCEPT ![class][lesson_idx] = updated],
                         classes, cells, i + 1, lesson_idx)

\* The two nested loops of table_to_substitutions; row is 0-based as in the
\* code, so table[row] is tbl[row + 1].  table[row] panics past the last row,
\* table[row][1..] panics on a row with no cell at all.
RECURSIVE LessonLoop(_, _, _, _, _)
LessonLoop(tbl, classes, entries, row, lesson_idx) ==
    IF lesson_idx >= NumLessons THEN Ok(entries)
    ELSE IF row >= Len(tbl) THEN Panic("table[row]: index out of bounds")
    ELSE IF Len(tbl[row + 1]) = 0 THEN Panic("table[row][1..]: slice out of range")
    ELSE LET r == ProcessCells(entries, classes, Tail(tbl[row + 1]), 1, lesson_idx)
         IN IF r.tag # "Ok" THEN r
            ELSE IF StartsWith(tbl[row + 1][1], "-")
                 THEN LessonLoop(tbl, classes, r.val, row + 1, lesson_idx + 1)
                 ELSE LessonLoop(tbl, classes, r.val, row + 1, lesson_idx)

\* SubstitutionSchedule::table_to_substitutions
TableToSubstitutions(tbl) ==
    IF Len(tbl) = 0 THEN Panic("table[0]: index out of bounds")
    ELSE IF Len(tbl[1]) = 0 THEN Panic("table[0][1..]: slice out of range")
    ELSE LET classes == Tail(tbl[1])
             entries == [c \in Range(classes) |-> NewColumn]
         IN LessonLoop(tbl, classes, entries, 1, 0)

\* extend that keeps the value a key already has (entry(..).or_insert(..))
ExtendKeepsFirst(entries, more) ==
    [c \in DOMAIN entries \cup DOMAIN more |->
        IF c \in DOMAIN entries THEN entries[c] ELSE more[c]]

\* HashMap::extend: the keys of both, the later value on a clash
Extend(entries, more) ==
    [c \in DOMAIN entries \cup DOMAIN more |->
        IF c \in DOMAIN more THEN more[c] ELSE entries[c]]

\* `for table in tables { entries.extend(Self::table_to_substitutions(table)) }`
RECURSIVE ExtendAll(_, _, _)
ExtendAll(entries, tables, k) ==
    IF k > Len(tables) THEN Ok(entries)
    ELSE LET r == TableToSubstitutions(tables[k])
         IN IF r.tag # "Ok" THEN r
            ELSE ExtendAll(Extend(entries, r.val), tables, k + 1)

\* SubstitutionSchedule::from_table; time_millis is SystemTime::now()
FromTable(tables, pdf_create_date, time_millis) ==
    LET r == ExtendAll(<<>>, tables, 1)
    IN IF r.tag # "Ok" THEN r
       ELSE Ok([pdf_issue_date |-> pdf_create_date,
                entries |-> r.val,
                struct_time |-> time_millis])

---------------------------------------------------------------------------
(* substitution_pdf_to_json: the issue date *)

Min(S) == CHOOSE x \in S : \A y \in S : x <= y

\* whether pat occurs in s at index i (1-based)
MatchesAt(s, pat, i) ==
    /\ i + Len(pat) - 1 <= Len(s)
    /\ \A k \in 1..Len(pat) : s[i + k - 1] = pat[k]

\* str.find(pat): Some(0-based byte index of the first match) or None
Find(s, pat) ==
    LET hits == {i \in 1..Len(s) : MatchesAt(s, pat, i)}
    IN IF hits = {} THEN None ELSE Some(Min(hits) - 1)

\* `let x = v;`: v is evaluated once and F is applied to its value
With(v, F(_)) == CHOOSE r \in {F(x) : x \in {v}} : TRUE

\* the pieces of s from its first match of pat on: at is s.find(pat)
RECURSIVE Split(_, _)
SplitAt(s, pat, at) ==
    IF at = None THEN <<s>>
    ELSE <<SubSeq(s, 1, at[1])>>
         \o Split(SubSeq(s, at[1] + Len(pat) + 1, Len(s)), pat)

\* str.split(pat).collect(): at least one piece, empty pieces kept
Split(s, pat) ==
    With(s, LAMBDA v : With(Find(v, pat), LAMBDA at : SplitAt(v, pat, at)))

Digits == <<"0", "1", "2", "3", "4", "5", "6", "7", "8", "9">>

DigitValue(c) == (CHOOSE d \in DOMAIN Digits : Digits[d] = c) - 1

RECURSIVE DigitsValue(_, _)
DigitsValue(s, acc) ==
    IF Len(s) = 0 THEN acc ELSE DigitsValue(Tail(s), acc * 10 + DigitValue(Head(s)))

RECURSIVE StripZeros(_)
StripZeros(s) ==
    IF Len(s) > 0 /\ Head(s) = "0" THEN StripZeros(Tail(s)) ELSE s

\* whether digit string a is greater than digit string b of the same length
RECURSIVE DigitsGreater(_, _)
DigitsGreater(a, b) ==
    /\ Len(a) > 0
    /\ \/ DigitValue(Head(a)) > DigitValue(Head(b))
       \/ Head(a) = Head(b) /\ DigitsGreater(Tail(a), Tail(b))

\* the digits of u32::MAX, 4294967295
U32MaxDigits == <<"4", "2", "9", "4", "9", "6", "7", "2", "9", "5">>

\* the value every ten-digit u32 is given here (TLC's integers end at
\* 2^31 - 1): ten-digit values are only ever compared with far smaller bounds
TenDigits == 1000 * 1000 * 1000

\* str.parse::<u32>(): an optional '+', then one or more decimal digits,
\* an error when the value exceeds u32::MAX
ParseU32(s) ==
    LET body == IF StartsWith(s, "+") THEN Tail(s) ELSE s
        sig == StripZeros(body)
    IN IF Len(body) = 0 \/ \E k \in DOMAIN body : body[k] \notin Range(Digits)
       THEN Err("invalid digit found in string")
       ELSE IF \/ Len(sig) > Len(U32MaxDigits)
               \/ Len(sig) = Len(U32MaxDigits) /\ DigitsGreater(sig, U32MaxDigits)
       THEN Err("number too large to fit in target type")
       ELSE IF Len(sig) = Len(U32MaxDigits) THEN Ok(TenDigits)
       ELSE Ok(DigitsValue(sig, 0))

IsLeap(y) == (y % 4 = 0 /\ y % 100 # 0) \/ y % 400 = 0

DaysInMonth(y, m) ==
    IF m = 2 THEN (IF IsLeap(y) THEN 29 ELSE 28)
    ELSE IF m \in {4, 6, 9, 11} THEN 30 ELSE 31

\* days from 1970-01-01 to the proleptic Gregorian date y-m-d
DaysFromCivil(y, m, d) ==
    LET yy == IF m <= 2 THEN y - 1 ELSE y
        era == yy \div 400
        yoe == yy - era * 400
        mp == (m + 9) % 12
        doy == (153 * mp + 2) \div 5 + d - 1
        doe == yoe * 365 + yoe \div 4 - yoe \div 100 + doy
    IN era * 146097 + doe - 719468

\* a millisecond count, kept as whole seconds and the milliseconds beyond
\* them (TLC's integers end at 2^31 - 1)
Millis(secs) == [secs |-> secs, ms |-> 0]

\* lines 94-110 of from_pdf: the text after "Datum: " up to the line break,
\* its last ", " piece split on '.', each piece parsed (unwrap), read as
\* day, month, year; the Date<Local> is built from that NaiveDate and and_hms
\* resolves midnight in the Local time zone, offset seconds east of UTC.
\* the date taken at midnight UTC: the offset of the local zone left out
DateOfUtcMidnight(date_str, offset) ==
    IF \E k \in DOMAIN date_str : date_str[k].tag # "Ok"
    THEN Panic("called unwrap on a ParseIntError")
    ELSE IF Len(date_str) < 3 THEN Panic("date_str[2]: index out of bounds")
    ELSE LET d == date_str[1].val
             m == date_str[2].val
             y == date_str[3].val
         IN IF m \notin 1..12 \/ d < 1 \/ d > DaysInMonth(y, m) \/ y > 262143
            THEN Panic("invalid or out-of-range date")
            ELSE Ok(Millis(DaysFromCivil(y, m, d) * 86400))

DateOf(date_str, offset) ==
    IF \E k \in DOMAIN date_str : date_str[k].tag # "Ok"
    THEN Panic("called unwrap on a ParseIntError")
    ELSE IF Len(date_str) < 3 THEN Panic("date_str[2]: index out of bounds")
    ELSE LET d == date_str[1].val
             m == date_str[2].val
             y == date_str[3].val
         IN IF m \notin 1..12 \/ d < 1 \/ d > DaysInMonth(y, m) \/ y > 262143
            THEN Panic("invalid or out-of-range date")
            ELSE Ok(Millis(DaysFromCivil(y, m, d) * 86400 - offset))

\* lines 97-104: line is pdf[date_idx_start..date_idx_end]
DateStr(line) ==
    With(Split(line, <<",", " ">>), LAMBDA pieces :
    With(Split(pieces[Len(pieces)], <<".">>), LAMBDA parts :
        [k \in DOMAIN parts |-> ParseU32(parts[k])]))

\* lines 95-110: rest is pdf[date_idx_start..]
DateIn(rest, offset) ==
    With(Find(rest, <<"\n">>), LAMBDA nl :
        IF nl = None THEN Err("date end not found")
        ELSE With(DateStr(SubSeq(rest, 1, nl[1])), LAMBDA date_str :
                 DateOf(date_str, offset)))

IssueDate(pdf, offset) ==
    With(Find(pdf, <<"D", "a", "t", "u", "m", ":", " ">>), LAMBDA date_idx_start :
        IF date_idx_start = None THEN Err("date not found")
        ELSE With(SubSeq(pdf, date_idx_start[1] + 1, Len(pdf)), LAMBDA rest :
                 DateIn(rest, offset)))

\* SubstitutionSchedule::from_pdf on a document whose lopdf text and tabula
\* output are doc.text and doc.tables; tool_ok is whether the java/tabula
\* invocation produced parseable output this time.
FromPdf(doc, offset, time_millis, tool_ok) ==
    IF ~doc.loads THEN Err("There was an error while reading the PDF File.")
    ELSE LET date == IssueDate(doc.text, offset)
         IN IF date.tag # "Ok" THEN date
            ELSE IF ~tool_ok THEN Err("tabula failed")
            ELSE FromTable(doc.tables, date.val, time_millis)

---------------------------------------------------------------------------
(* serde_json::to_string(&SubstitutionSchedule) *)

\* the serialized names of block_0 .. block_5
BlockKeys == <<"0", "1", "2", "3", "4", "5">>

\* a SubstitutionColumn as a JSON object: a None block is skipped
\* (skip_serializing_if = "Option::is_none"), a Some block is its text
SerializeColumn(col) ==
    LET present == {b \in DOMAIN col : col[b] # None}
    IN [k \in {BlockKeys[b + 1] : b \in present} |->
           col[(CHOOSE b \in present : BlockKeys[b + 1] = k)][1]]

Serialize(schedule) ==
    [pdf_issue_date |-> schedule.pdf_issue_date,
     entries |-> [c \in DOMAIN schedule.entries |->
                     SerializeColumn(schedule.entries[c])],
     struct_time |-> schedule.struct_time]

---------------------------------------------------------------------------
(* The documents the school's server hands out, as the bytes' content: what *)
(* lopdf reads as text and what tabula returns as tables.                   *)

DateLine(d1, d2) ==
    <<"D", "a", "t", "u", "m", ":", " ", "M", "o", ",", " ",
      d1, d2, ".", "0", "2", ".", "2", "0", "2", "5", "\n">>

Header == << <<>>, <<"7", "a">>, <<"7", "b">> >>

Separator == << <<"-">>, <<>>, <<>> >>

SamplePdfs ==
    << \* 1: a well-formed plan
       [loads |-> TRUE, text |-> DateLine("0", "3"),
        tables |-> << <<Header, << <<"1">>, <<"M">>, <<>> >>, Separator,
                        Separator, Separator, Separator, Separator>> >>],
       \* 2: a plan whose table ends after three lesson blocks
       [loads |-> TRUE, text |-> DateLine("0", "4"),
        tables |-> << <<Header, Separator, Separator, Separator>> >>] >>

\* the pdf bytes a fetch can return, named by their index in SamplePdfs
Pdfs == DOMAIN SamplePdfs

\* hex::encode(Sha512::digest(pdf)): one digest per byte content
Sha512Hex(pdf) == <<"sha512", pdf>>

\* the machine's offset east of UTC, in seconds (CET)
LocalOffset == 60 * 60

\* from_pdf on every sample and for both behaviours of the tool, computed
\* once, with the clock at 0
SampleExtractions ==
    [pdf \in Pdfs |-> [tool_ok \in BOOLEAN |->
        FromPdf(SamplePdfs[pdf], LocalOffset, Millis(0), tool_ok)]]

\* from_pdf on the sample pdf at time_millis: struct_time is the one field
\* of the outcome that depends on the time of the call
FromPdfAt(pdf, time_millis, tool_ok) ==
    LET r == SampleExtractions[pdf][tool_ok]
    IN IF r.tag = "Ok" THEN Ok([r.val EXCEPT !.struct_time = time_millis])
       ELSE r

---------------------------------------------------------------------------
(* main.rs: Schoolday *)

Schooldays == {"Monday", "Tuesday", "Wednesday", "Thursday", "Friday"}

Weekdays == {"Mon", "Tue", "Wed", "Thu", "Fri", "Sat", "Sun"}

\* next_day that stops at the end of the week: Friday stays Friday
NextDaySaturates(day) ==
    CASE day = "Monday" -> "Tuesday"
      [] day = "Tuesday" -> "Wednesday"
      [] day = "Wednesday" -> "Thursday"
      [] OTHER -> "Friday"

\* Schoolday::next_day
NextDay(day) ==
    CASE day = "Monday" -> "Tuesday"
      [] day = "Tuesday" -> "Wednesday"
      [] day = "Wednesday" -> "Thursday"
      [] day = "Thursday" -> "Friday"
      [] day = "Friday" -> "Monday"

\* the conversion taken as num_days_from_monday() % 5: Saturday falls on
\* Monday, Sunday on Tuesday
FromWeekdayModulo(wd) ==
    CASE wd = "Tue" -> "Tuesday"
      [] wd = "Wed" -> "Wednesday"
      [] wd = "Thu" -> "Thursday"
      [] wd = "Fri" -> "Friday"
      [] wd = "Sun" -> "Tuesday"
      [] OTHER -> "Monday"

\* impl From<Weekday> for Schoolday
FromWeekday(wd) ==
    CASE wd = "Tue" -> "Tuesday"
      [] wd = "Wed" -> "Wednesday"
      [] wd = "Thu" -> "Thursday"
      [] wd = "Fri" -> "Friday"
      [] OTHER -> "Monday"

\* chrono::Weekday::succ, the calendar day after wd
Tomorrow(wd) ==
    CASE wd = "Mon" -> "Tue"
      [] wd = "Tue" -> "Wed"
      [] wd = "Wed" -> "Thu"
      [] wd = "Thu" -> "Fri"
      [] wd = "Fri" -> "Sat"
      [] wd = "Sat" -> "Sun"
      [] wd = "Sun" -> "Mon"

---------------------------------------------------------------------------
(* Bounds and the state *)

\* iterations of the refresh loop that are explored
MaxTicks == 2

\* calls of JsonHandler::update that are explored: the fetches beyond them
\* are still under way or end in a transport error
MaxUpdates == 2

\* every iteration spawns two tasks: iteration k (from 0) spawns 2k+1, 2k+2
TaskIds == 1..(2 * MaxTicks)

\* PDF_GET_LOOP_SLEEP_TIME = Duration::from_secs(20)
SleepSecs == 20

\* SystemTime::now() in milliseconds, on a clock that starts with the loop
\* and is read to the loop period
NowMillis == Millis(counter * SleepSecs)

\* a task: pc is where it stands, day and pdf are its arguments of update,
\* json is update's local of that name
Unspawned == [pc |-> "unspawned", day |-> "none", pdf |-> 0, json |-> None]

NoHist == [hash |-> None, json |-> None, prev |-> None]

FreeLock == [readers |-> {}, writer |-> None]

\* requests served at once
MaxLookups == 1

\* the requests, numbered after the tasks: both take guards of the locks
LookupIds == (2 * MaxTicks + 1)..(2 * MaxTicks + MaxLookups)

\* no request under way and none answered
IdleLookup == [pc |-> "idle", day |-> "none", via |-> "none", response |-> None]

\* JsonHandler::new, and the process before the loop's first iteration
InitStore ==
    /\ jsons = [d \in Schooldays |-> None]
    /\ hashes = [d \in Schooldays |-> None]
    /\ jsonSource = [d \in Schooldays |-> None]
    /\ hashesLock = FreeLock
    /\ jsonsLock = FreeLock
    /\ tasks = [t \in TaskIds |-> Unspawned]
    /\ counter = 0
    /\ disk = {}
    /\ dbPending = {}
    /\ hist = [t \in TaskIds |-> NoHist]
    /\ last = [d \in Schooldays |-> None]
    /\ updates = 0
    /\ lookups = [l \in LookupIds |-> IdleLookup]
    /\ dbFailed = {}

\* the days on which the process is started here: the iterations that follow
\* read Friday, Saturday and Sunday, that is the wrap from Friday to Monday
\* and both weekend days
StartDays == {"Fri"}

Init ==
    /\ InitStore
    /\ weekday \in StartDays
    /\ input = None
    /\ output = None

\* the artifacts update creates for task t under TEMP_ROOT_DIR
TempDir(t) == <<"dir", t>>

TempFile(t) == <<"file", t>>

\* task t has returned or panicked: its locals are gone
Done(t) == [tasks EXCEPT ![t] = [Unspawned EXCEPT !.pc = "done",
                                                  !.day = tasks[t].day]]

Goto(t, pc) == [tasks EXCEPT ![t].pc = pc]

\* whether task t is inside JsonHandler::update
InUpdate(t) == tasks[t].pc \notin {"unspawned", "fetch", "done"}

\* the record of a call of update that has ended: its bytes, the place
\* where it ended and what it ended with: "Ok", "Err" or "Panic"
Ended(t, res) == Some([pdf |-> tasks[t].pdf, exit |-> tasks[t].pc, result |-> res])

\* the call of update by task t ends with res at the place it stands
Return(t, res) ==
    /\ tasks' = Done(t)
    /\ last' = [last EXCEPT ![tasks[t].day] = Ended(t, res)]
    /\ hist' = [hist EXCEPT ![t] = NoHist]

---------------------------------------------------------------------------
(* main.rs: the refresh loop *)

\* Tick of a loop that awaits the tasks it spawned and returns the first
\* error: no iteration while a task runs, none after a task has failed
TickAfterJoin(wd) ==
    /\ counter < MaxTicks
    /\ \A t \in TaskIds : tasks[t].pc \in {"unspawned", "done"}
    /\ \A d \in Schooldays : last[d] # None => last[d][1].result = "Ok"
    /\ wd \in {weekday, Tomorrow(weekday)}
    /\ tasks' = [tasks EXCEPT
           ![2 * counter + 1] = [Unspawned EXCEPT !.pc = "fetch",
                                    !.day = FromWeekday(wd)],
           ![2 * counter + 2] = [Unspawned EXCEPT !.pc = "fetch",
                                    !.day = NextDay(FromWeekday(wd))]]
    /\ counter' = counter + 1
    /\ weekday' = wd
    /\ UNCHANGED <<jsons, hashes, jsonSource, hashesLock, jsonsLock, disk,
                   dbPending, hist, last, updates, input, output, lookups, dbFailed>>

\* Tick of a loop that takes its second slot from the calendar day after
\* the one it read, not from next_day of its first slot
TickSecondFromCalendar(wd) ==
    /\ counter < MaxTicks
    /\ wd \in {weekday, Tomorrow(weekday)}
    /\ tasks' = [tasks EXCEPT
           ![2 * counter + 1] = [Unspawned EXCEPT !.pc = "fetch",
                                    !.day = FromWeekday(wd)],
           ![2 * counter + 2] = [Unspawned EXCEPT !.pc = "fetch",
                                    !.day = FromWeekday(Tomorrow(wd))]]
    /\ counter' = counter + 1
    /\ weekday' = wd
    /\ UNCHANGED <<jsons, hashes, jsonSource, hashesLock, jsonsLock, disk,
                   dbPending, hist, last, updates, input, output, lookups, dbFailed>>

\* One iteration of the loop: read the local weekday (the same as at the
\* last iteration, 20 s ago, or the day after), spawn the two tasks, count.
\* counter is a u32; the iterations explored stay far below u32::MAX.
Tick(wd) ==
    /\ counter < MaxTicks
    /\ wd \in {weekday, Tomorrow(weekday)}
    /\ LET next_valid_school_weekday == FromWeekday(wd)
           day_after == NextDay(next_valid_school_weekday)
       IN tasks' = [tasks EXCEPT
              ![2 * counter + 1] = [Unspawned EXCEPT !.pc = "fetch",
                                       !.day = next_valid_school_weekday],
              ![2 * counter + 2] = [Unspawned EXCEPT !.pc = "fetch",
                                       !.day = day_after]]
    /\ counter' = counter + 1
    /\ weekday' = wd
    /\ UNCHANGED <<jsons, hashes, jsonSource, hashesLock, jsonsLock, disk,
                   dbPending, hist, last, updates, input, output, lookups, dbFailed>>

\* check_weekday_pdf up to the call of update: get_weekday_pdf returns the
\* bytes the server holds at that moment, or a reqwest error (`?` returns it).
\* On entering update the task notes what the store holds for its day and
\* how the last call for that day ended.
GetWeekdayPdf(t) ==
    /\ tasks[t].pc = "fetch"
    /\ \/ tasks' = Done(t) /\ UNCHANGED <<hist, last, updates>>
       \/ \E pdf \in Pdfs :
             /\ updates < MaxUpdates
             /\ updates' = updates + 1
             /\ tasks' = [tasks EXCEPT ![t].pc = "hashes_read", ![t].pdf = pdf]
             /\ hist' = [hist EXCEPT ![t] =
                    [hash |-> hashes[tasks[t].day],
                     json |-> jsons[tasks[t].day],
                     prev |-> last[tasks[t].day]]]
             /\ UNCHANGED last
    /\ UNCHANGED <<jsons, hashes, jsonSource, hashesLock, jsonsLock, counter,
                   weekday, disk, dbPending, input, output, lookups, dbFailed>>

---------------------------------------------------------------------------
(* json_handler.rs: JsonHandler::update, one action per await point or call *)

\* tokio RwLock: a read guard is granted while no write guard is held
CanRead(lock) == lock.writer = None

\* a write guard is granted while no guard at all is held
CanWrite(lock) == lock.writer = None /\ lock.readers = {}

\* `let hashes = self.hashes.read().await;`
AcquireHashesRead(t) ==
    /\ tasks[t].pc = "hashes_read"
    /\ CanRead(hashesLock)
    /\ hashesLock' = [hashesLock EXCEPT !.readers = @ \cup {t}]
    /\ tasks' = Goto(t, "check")
    /\ UNCHANGED <<jsons, hashes, jsonSource, jsonsLock, counter, weekday,
                   disk, dbPending, hist, last, updates, input, output, lookups, dbFailed>>

\* CheckHash without `std::mem::drop(hashes)`: the read guard is still held
\* when the write lock is requested
CheckHashKeepsReadGuard(t) ==
    /\ tasks[t].pc = "check"
    /\ IF hashes[tasks[t].day] = Some(Sha512Hex(tasks[t].pdf))
       THEN /\ Return(t, "Ok")
            /\ hashesLock' = [hashesLock EXCEPT !.readers = @ \ {t}]
       ELSE /\ tasks' = Goto(t, "hashes_write")
            /\ UNCHANGED <<hist, last, hashesLock>>
    /\ UNCHANGED <<jsons, hashes, jsonSource, jsonsLock, counter, weekday,
                   disk, dbPending, updates, input, output, lookups, dbFailed>>

\* CheckHash with the early return lost: the write of the hash and the
\* extraction follow whatever the stored hash is
CheckHashAlwaysWrites(t) ==
    /\ tasks[t].pc = "check"
    /\ hashesLock' = [hashesLock EXCEPT !.readers = @ \ {t}]
    /\ tasks' = Goto(t, "hashes_write")
    /\ UNCHANGED <<jsons, hashes, jsonSource, jsonsLock, counter, weekday,
                   disk, dbPending, hist, last, updates, input, output, lookups, dbFailed>>

\* The comparison with the stored hash under the read guard: on a match
\* return Ok(()) (the guard is dropped with the scope), otherwise drop the
\* guard and go on to take the write lock.
CheckHash(t) ==
    /\ tasks[t].pc = "check"
    /\ hashesLock' = [hashesLock EXCEPT !.readers = @ \ {t}]
    /\ IF hashes[tasks[t].day] = Some(Sha512Hex(tasks[t].pdf))
       THEN Return(t, "Ok")
       ELSE tasks' = Goto(t, "hashes_write") /\ UNCHANGED <<hist, last>>
    /\ UNCHANGED <<jsons, hashes, jsonSource, jsonsLock, counter, weekday,
                   disk, dbPending, updates, input, output, lookups, dbFailed>>

\* `let mut hashes = self.hashes.write().await;`
AcquireHashesWrite(t) ==
    /\ tasks[t].pc = "hashes_write"
    /\ CanWrite(hashesLock)
    /\ hashesLock' = [hashesLock EXCEPT !.writer = Some(t)]
    /\ tasks' = Goto(t, "put_hash")
    /\ UNCHANGED <<jsons, hashes, jsonSource, jsonsLock, counter, weekday,
                   disk, dbPending, hist, last, updates, input, output, lookups, dbFailed>>

\* PutHash with the insert lost: the guard is taken and dropped, the hash
\* of the bytes is not stored
PutHashSkipsInsert(t) ==
    /\ tasks[t].pc = "put_hash"
    /\ hashesLock' = [hashesLock EXCEPT !.writer = None]
    /\ tasks' = Goto(t, "temp")
    /\ UNCHANGED <<jsons, hashes, jsonSource, jsonsLock, counter, weekday,
                   disk, dbPending, hist, last, updates, input, output, lookups, dbFailed>>

\* PutHash without the block around the write guard: the guard lives on
\* into the extraction
PutHashKeepsGuard(t) ==
    /\ tasks[t].pc = "put_hash"
    /\ hashes' = [hashes EXCEPT ![tasks[t].day] = Some(Sha512Hex(tasks[t].pdf))]
    /\ tasks' = Goto(t, "temp")
    /\ UNCHANGED <<jsons, jsonSource, hashesLock, jsonsLock, counter, weekday,
                   disk, dbPending, hist, last, updates, input, output, lookups, dbFailed>>

\* `hashes.insert(day, hash.clone());` and the end of the block drops the guard
PutHash(t) ==
    /\ tasks[t].pc = "put_hash"
    /\ hashes' = [hashes EXCEPT ![tasks[t].day] = Some(Sha512Hex(tasks[t].pdf))]
    /\ hashesLock' = [hashesLock EXCEPT !.writer = None]
    /\ tasks' = Goto(t, "temp")
    /\ UNCHANGED <<jsons, jsonSource, jsonsLock, counter, weekday, disk,
                   dbPending, hist, last, updates, input, output, lookups, dbFailed>>

\* make_temp_dir, File::create and write_all: the directory is made, then
\* the file is created and written, or one of the two expect()s panics
MakeTemp(t) ==
    /\ tasks[t].pc = "temp"
    /\ \/ /\ disk' = disk \cup {TempDir(t), TempFile(t)}
          /\ tasks' = Goto(t, "extract")
          /\ UNCHANGED <<hist, last>>
       \/ /\ disk' = disk \cup {TempDir(t)}
          /\ Return(t, "Panic")
    /\ UNCHANGED <<jsons, hashes, jsonSource, hashesLock, jsonsLock, counter,
                   weekday, dbPending, updates, input, output, lookups, dbFailed>>

\* Extract that takes the slot's hash out again when the extraction fails
ExtractRollsBackHash(t) ==
    /\ tasks[t].pc = "extract"
    /\ \E tool_ok \in BOOLEAN :
          LET new_schedule == FromPdfAt(tasks[t].pdf, NowMillis, tool_ok)
          IN IF new_schedule.tag = "Ok"
             THEN /\ tasks' = [tasks EXCEPT ![t].pc = "jsons_write",
                                            ![t].json =
                                               Some(Serialize(new_schedule.val))]
                  /\ dbPending' = dbPending \cup {t}
                  /\ UNCHANGED <<hist, last, hashes>>
             ELSE /\ Return(t, new_schedule.tag)
                  /\ hashes' = [hashes EXCEPT ![tasks[t].day] = None]
                  /\ UNCHANGED dbPending
    /\ UNCHANGED <<jsons, jsonSource, hashesLock, jsonsLock, counter,
                   weekday, disk, updates, input, output, lookups, dbFailed>>

\* Extract that drops the slot's stored schedule when the extraction fails
ExtractClearsOnFailure(t) ==
    /\ tasks[t].pc = "extract"
    /\ \E tool_ok \in BOOLEAN :
          LET new_schedule == FromPdfAt(tasks[t].pdf, NowMillis, tool_ok)
          IN IF new_schedule.tag = "Ok"
             THEN /\ tasks' = [tasks EXCEPT ![t].pc = "jsons_write",
                                            ![t].json =
                                               Some(Serialize(new_schedule.val))]
                  /\ dbPending' = dbPending \cup {t}
                  /\ UNCHANGED <<hist, last, jsons, jsonSource>>
             ELSE /\ Return(t, new_schedule.tag)
                  /\ jsons' = [jsons EXCEPT ![tasks[t].day] = None]
                  /\ jsonSource' = [jsonSource EXCEPT ![tasks[t].day] = None]
                  /\ UNCHANGED dbPending
    /\ UNCHANGED <<hashes, hashesLock, jsonsLock, counter,
                   weekday, disk, updates, input, output, lookups, dbFailed>>

\* from_pdf(temp_file_path)? and serde_json::to_string(..)?, then the spawn
\* of the database task.  An Err returns from update at the `?`, a panic
\* ends the task; neither reaches the removal of the temporary artifacts.
Extract(t) ==
    /\ tasks[t].pc = "extract"
    /\ \E tool_ok \in BOOLEAN :
          LET new_schedule == FromPdfAt(tasks[t].pdf, NowMillis, tool_ok)
          IN IF new_schedule.tag = "Ok"
             THEN /\ tasks' = [tasks EXCEPT ![t].pc = "jsons_write",
                                            ![t].json =
                                               Some(Serialize(new_schedule.val))]
                  /\ dbPending' = dbPending \cup {t}
                  /\ UNCHANGED <<hist, last>>
             ELSE /\ Return(t, new_schedule.tag)
                  /\ UNCHANGED dbPending
    /\ UNCHANGED <<jsons, hashes, jsonSource, hashesLock, jsonsLock, counter,
                   weekday, disk, updates, input, output, lookups, dbFailed>>

\* `let mut json_store = self.jsons.write().await;`
AcquireJsonsWrite(t) ==
    /\ tasks[t].pc = "jsons_write"
    /\ CanWrite(jsonsLock)
    /\ jsonsLock' = [jsonsLock EXCEPT !.writer = Some(t)]
    /\ tasks' = Goto(t, "put_json")
    /\ UNCHANGED <<jsons, hashes, jsonSource, hashesLock, counter, weekday,
                   disk, dbPending, hist, last, updates, input, output, lookups, dbFailed>>

\* `json_store.insert(day, json);` and the end of the block drops the guard
PutJson(t) ==
    /\ tasks[t].pc = "put_json"
    /\ jsons' = [jsons EXCEPT ![tasks[t].day] = tasks[t].json]
    /\ jsonSource' = [jsonSource EXCEPT ![tasks[t].day] = Some(tasks[t].pdf)]
    /\ jsonsLock' = [jsonsLock EXCEPT !.writer = None]
    /\ tasks' = [tasks EXCEPT ![t].pc = "cleanup", ![t].json = None]
    /\ UNCHANGED <<hashes, hashesLock, counter, weekday, disk, dbPending,
                   hist, last, updates, input, output, lookups, dbFailed>>

\* remove_file(temp_file_path)?; remove_dir(temp_dir_path)?; Ok(())
\* Either removal can fail in the file system, and `?` returns that error.
RemoveTemp(t) ==
    /\ tasks[t].pc = "cleanup"
    /\ \/ /\ disk' = disk \ {TempFile(t), TempDir(t)}
          /\ Return(t, "Ok")
       \/ /\ disk' = disk \ {TempFile(t)}
          /\ Return(t, "Err")
       \/ /\ disk' = disk
          /\ Return(t, "Err")
    /\ UNCHANGED <<jsons, hashes, jsonSource, hashesLock, jsonsLock, counter,
                   weekday, dbPending, updates, input, output, lookups, dbFailed>>

\* update_db that undoes the slot's replacement when the insert fails
UpdateDbRollsBack(t) ==
    /\ t \in dbPending
    /\ dbPending' = dbPending \ {t}
    /\ \E query_ok \in BOOLEAN :
          IF query_ok
          THEN UNCHANGED <<dbFailed, jsons, jsonSource>>
          ELSE /\ dbFailed' = dbFailed \cup {t}
               /\ jsons' = [jsons EXCEPT ![tasks[t].day] = None]
               /\ jsonSource' = [jsonSource EXCEPT ![tasks[t].day] = None]
    /\ UNCHANGED <<hashes, hashesLock, jsonsLock, tasks, counter, weekday,
                   disk, hist, last, updates, input, output, lookups>>

\* the task spawned at line 75: update_db runs the INSERT; an Err of the
\* query is logged with error! and goes nowhere else
UpdateDb(t) ==
    /\ t \in dbPending
    /\ dbPending' = dbPending \ {t}
    /\ \E query_ok \in BOOLEAN :
          dbFailed' = IF query_ok THEN dbFailed ELSE dbFailed \cup {t}
    /\ UNCHANGED <<jsons, hashes, jsonSource, hashesLock, jsonsLock, tasks,
                   counter, weekday, disk, hist, last, updates, input, output,
                   lookups>>

\* the steps of task t
TaskStep(t) ==
    \/ GetWeekdayPdf(t)
    \/ AcquireHashesRead(t)
    \/ CheckHash(t)
    \/ AcquireHashesWrite(t)
    \/ PutHash(t)
    \/ MakeTemp(t)
    \/ Extract(t)
    \/ AcquireJsonsWrite(t)
    \/ PutJson(t)
    \/ RemoveTemp(t)

Next ==
    \/ \E wd \in Weekdays : Tick(wd)
    \/ \E t \in TaskIds : TaskStep(t)
    \/ \E t \in TaskIds : UpdateDb(t)

Spec == Init /\ [][Next]_vars

\* the loop and its tasks, the process started on any day of the week
WeekInit ==
    /\ InitStore
    /\ weekday \in Weekdays
    /\ input = None
    /\ output = None

WeekSpec == WeekInit /\ [][Next]_vars

\* the same program when the calls of update do not overlap: a task enters
\* update only while no other task is inside it
NoUpdateRunning == \A u \in TaskIds : ~InUpdate(u)

SeqNext ==
    \/ \E wd \in Weekdays : Tick(wd)
    \/ \E t \in TaskIds : NoUpdateRunning /\ GetWeekdayPdf(t)
    \/ \E t \in TaskIds :
          \/ AcquireHashesRead(t)
          \/ CheckHash(t)
          \/ AcquireHashesWrite(t)
          \/ PutHash(t)
          \/ MakeTemp(t)
          \/ Extract(t)
          \/ AcquireJsonsWrite(t)
          \/ PutJson(t)
          \/ RemoveTemp(t)
    \/ \E t \in TaskIds : UpdateDb(t)

SeqSpec == Init /\ [][SeqNext]_vars

---------------------------------------------------------------------------
(* The requests served while the loop runs: JsonHandler::get_json and the   *)
(* actix endpoint get_schoolday_pdf_json                                    *)

\* The static the endpoint reads, `crate::PDF_JSON_STORE`: main.rs declares
\* JSON_HANDLER only, and no code writes a map of that name, so whatever the
\* endpoint reads there is a map that update never fills
PDF_JSON_STORE == [d \in Schooldays |-> None]

\* HttpResponse::Ok().content_type("application/json").body(json.clone())
OkJson(json) ==
    [status |-> 200, headers |-> {<<"Content-Type", "application/json">>},
     body |-> Some(json)]

\* HttpResponse::NoContent().append_header(("Retry-After", "120")).finish()
NoContent ==
    [status |-> 204, headers |-> {<<"Retry-After", "120">>}, body |-> None]

\* get_schoolday_pdf_json(day): the read guard of PDF_JSON_STORE is free of
\* writers, so the handler runs to its response
GetSchooldayPdfJson(l, day) ==
    /\ lookups[l].pc \in {"idle", "done"}
    /\ lookups' = [lookups EXCEPT ![l] =
           [pc |-> "done", day |-> day, via |-> "endpoint",
            response |-> Some(IF PDF_JSON_STORE[day] # None
                              THEN OkJson(PDF_JSON_STORE[day][1])
                              ELSE NoContent)]]
    /\ UNCHANGED <<jsons, hashes, jsonSource, hashesLock, jsonsLock, tasks,
                   counter, weekday, disk, dbPending, hist, last, updates,
                   input, output, dbFailed>>

\* get_json(day): `let jsons = self.jsons.read().await;`
GetJsonAcquire(l, day) ==
    /\ lookups[l].pc \in {"idle", "done"}
    /\ CanRead(jsonsLock)
    /\ jsonsLock' = [jsonsLock EXCEPT !.readers = @ \cup {l}]
    /\ lookups' = [lookups EXCEPT ![l] =
           [pc |-> "jsons_read", day |-> day, via |-> "get_json",
            response |-> None]]
    /\ UNCHANGED <<jsons, hashes, jsonSource, hashesLock, tasks, counter,
                   weekday, disk, dbPending, hist, last, updates, input,
                   output, dbFailed>>

\* `jsons.get(&day).map(Clone::clone)`, the guard dropped on return
GetJson(l) ==
    /\ lookups[l].pc = "jsons_read"
    /\ jsonsLock' = [jsonsLock EXCEPT !.readers = @ \ {l}]
    /\ lookups' = [lookups EXCEPT ![l].pc = "done",
                                  ![l].response = Some(jsons[lookups[l].day])]
    /\ UNCHANGED <<jsons, hashes, jsonSource, hashesLock, tasks, counter,
                   weekday, disk, dbPending, hist, last, updates, input,
                   output, dbFailed>>

\* the slots asked for: one the tasks fill, one they never reach
LookupDays == {"Monday", "Wednesday"}

LookupStep(l) ==
    \/ \E day \in LookupDays : GetSchooldayPdfJson(l, day)
    \/ \E day \in LookupDays : GetJsonAcquire(l, day)
    \/ GetJson(l)

\* the loop and its tasks, and requests at any time
ServeNext ==
    \/ Next
    \/ \E l \in LookupIds : LookupStep(l)

ServeSpec == Init /\ [][ServeNext]_vars

---------------------------------------------------------------------------
(* Table reconstruction on its own: the tables tabula can hand over *)

\* rows between the leading and the closing separator rows of a table
MaxRichRows == 2

Cells == {<<>>, <<"A">>, <<"B">>}

Labels == {<<"1">>, <<"-">>}

\* the rows of a label and n cells
RowsOf(n) == {<<l>> \o cs : l \in Labels, cs \in [1..n -> Cells]}

\* rows as wide as Header, rows one cell short, a row with one cell too
\* many and a row without any cell
SampleRows ==
    RowsOf(2) \cup RowsOf(1) \cup {<< <<"1">>, <<"A">>, <<>>, <<"B">> >>, <<>>}

\* k separator rows
Separators(k) == [i \in 1..k |-> Separator]

SampleTables ==
    {<<Header>> \o Separators(k) \o rows \o Separators(m) :
        k \in 0..1, m \in 3..5,
        rows \in UNION {[1..n -> SampleRows] : n \in 0..MaxRichRows}}

TableInit ==
    /\ InitStore
    /\ weekday \in StartDays
    /\ input \in SampleTables
    /\ output = None

\* a call of table_to_substitutions on the table
Reconstruct ==
    /\ output = None
    /\ output' = Some(TableToSubstitutions(input))
    /\ UNCHANGED <<jsons, hashes, jsonSource, hashesLock, jsonsLock, tasks,
                   counter, weekday, disk, dbPending, hist, last, updates,
                   input, lookups, dbFailed>>

TableNext == Reconstruct

TableSpec == TableInit /\ [][TableNext]_vars

---------------------------------------------------------------------------
(* The slots on their own: the loop's choice of slots on any day of the    *)
(* week, and next_day applied over and over                                *)

DayInit ==
    /\ InitStore
    /\ weekday \in Weekdays
    /\ input \in Schooldays
    /\ output = None

\* one more application of next_day, starting from the slot in input
ApplyNextDay ==
    /\ Len(output) < Cardinality(Schooldays)
    /\ output' = Append(output, NextDay(IF output = <<>> THEN input
                                         ELSE output[Len(output)]))
    /\ UNCHANGED <<jsons, hashes, jsonSource, hashesLock, jsonsLock, tasks,
                   counter, weekday, disk, dbPending, hist, last, updates,
                   input, lookups, dbFailed>>

DayNext ==
    \/ \E wd \in Weekdays : Tick(wd)
    \/ ApplyNextDay

DaySpec == DayInit /\ [][DayNext]_vars

---------------------------------------------------------------------------
(* from_table on its own: the tables of the pages of one document *)

\* tables of one document
MaxTables == 2

Headers ==
    { << <<>>, <<"7", "a">>, <<"7", "b">> >>,
      << <<>>, <<"7", "b">>, <<"7", "c">> >>,
      << <<>>, <<"7", "a">> >> }

\* a separator row as wide as header h, with the given cells
SeparatorWith(cells) == << <<"-">> >> \o cells

\* the tables of header h: one row of text closing block 0, then the four
\* empty groups
TablesOf(h) ==
    { <<h, SeparatorWith(cells)>>
         \o [k \in 1..(NumLessons - 1) |->
                SeparatorWith([i \in 1..(Len(h) - 1) |-> <<>>])] :
      cells \in [1..(Len(h) - 1) -> Cells] }

SampleDocuments ==
    UNION { [1..n -> UNION {TablesOf(h) : h \in Headers}] : n \in 0..MaxTables }

MergeInit ==
    /\ InitStore
    /\ weekday \in StartDays
    /\ input \in SampleDocuments
    /\ output = None

\* a call of from_table on the tables, the issue date and the clock at 0
BuildFromTable ==
    /\ output = None
    /\ output' = Some(FromTable(input, Millis(0), Millis(0)))
    /\ UNCHANGED <<jsons, hashes, jsonSource, hashesLock, jsonsLock, tasks,
                   counter, weekday, disk, dbPending, hist, last, updates,
                   input, lookups, dbFailed>>

MergeNext == BuildFromTable

MergeSpec == MergeInit /\ [][MergeNext]_vars

---------------------------------------------------------------------------
(* The issue date on its own: the text of a document and the offset of the *)
(* local time zone                                                         *)

\* a number as the document prints it and as the number it is
Printed(text, n) == [text |-> text, n |-> n]

SampleDays ==
    {Printed(<<"0", "1">>, 1), Printed(<<"3">>, 3), Printed(<<"2", "9">>, 29),
     Printed(<<"3", "1">>, 31)}

SampleMonths ==
    {Printed(<<"0", "1">>, 1), Printed(<<"0", "2">>, 2), Printed(<<"1", "2">>, 12)}

SampleYears ==
    {Printed(<<"1", "9", "7", "0">>, 1970), Printed(<<"2", "0", "2", "4">>, 2024),
     Printed(<<"2", "0", "2", "5">>, 2025)}

\* what stands between the label and the date: the weekday, with one comma
\* or with two
SamplePrefixes ==
    { <<"M", "o", ",", " ">>,
      <<"M", "o", ",", " ", "d", "e", "n", ",", " ">> }

\* what stands before the label
SampleLeads == { <<>>, <<"P", "l", "a", "n", "\n">> }

\* seconds east of UTC: New York, UTC, CET, CEST
SampleOffsets == {0 - 5 * 3600, 0, 3600, 2 * 3600}

\* the text of a document of that date, and what the date is
DateInputs ==
    { [text |-> lead \o <<"D", "a", "t", "u", "m", ":", " ">> \o prefix
                 \o d.text \o <<".">> \o m.text \o <<".">> \o y.text
                 \o <<"\n", "7", "a", ",", " ", "7", "b", "\n">>,
       offset |-> offset, day |-> d.n, month |-> m.n, year |-> y.n] :
      lead \in SampleLeads, prefix \in SamplePrefixes, d \in SampleDays,
      m \in SampleMonths, y \in SampleYears, offset \in SampleOffsets }

DateInit ==
    /\ InitStore
    /\ weekday \in StartDays
    /\ input \in DateInputs
    /\ output = None

\* lines 94-110 of from_pdf on the text, in a zone of that offset
ParseIssueDate ==
    /\ output = None
    /\ output' = Some(IssueDate(input.text, input.offset))
    /\ UNCHANGED <<jsons, hashes, jsonSource, hashesLock, jsonsLock, tasks,
                   counter, weekday, disk, dbPending, hist, last, updates,
                   input, lookups, dbFailed>>

DateNext == ParseIssueDate

DateSpec == DateInit /\ [][DateNext]_vars

\* The tokio runtime runs every task that can take a step, the timer wakes
\* the loop after its sleep, and the fetch and the external tool both end
\* (timeouts of 20 s on the client).
FairSpec ==
    /\ Init
    /\ [][Next]_vars
    /\ WF_vars(\E wd \in Weekdays : Tick(wd))
    /\ \A t \in TaskIds : WF_vars(TaskStep(t))

---------------------------------------------------------------------------
(* Properties *)

\* whether a row after the header has fewer cells than the header
HasShortRow(tbl) == \E r \in 2..Len(tbl) : Len(tbl[r]) < Len(tbl[1])

\* C10: table reconstruction of a table with a content row that has fewer
\* cells than the header does not return a class mapping.
C10_ShortRowIsError ==
    (output # None /\ HasShortRow(input)) => output[1].tag # "Ok"

\* the step in which the call of update by task t ends at place pc
Returns(t, pc) == tasks[t].pc = pc /\ tasks'[t].pc = "done"

\* whether task t holds a guard of lock
Holds(t, lock) == t \in lock.readers \/ lock.writer = Some(t)

\* C1: when update got past the hash check and extraction fails, the
\* slot's stored hash and stored schedule on return are what they were when
\* update was called.
C1_FailedExtractionLeavesEntry ==
    [][\A t \in TaskIds :
          Returns(t, "extract") =>
             /\ hashes'[tasks[t].day] = hist[t].hash
             /\ jsons'[tasks[t].day] = hist[t].json]_vars

\* C2: an update that follows, for the same slot and with the same bytes, an
\* update that failed in extraction is not short-circuited as unchanged at
\* the hash check.
C2_RetryAfterFailedExtraction ==
    [][\A t \in TaskIds :
          Returns(t, "check") =>
             ~ /\ hist[t].prev # None
               /\ hist[t].prev[1].pdf = tasks[t].pdf
               /\ hist[t].prev[1].exit = "extract"]_vars

\* C3: when the stored hash of the slot equals the hash of the bytes, update
\* returns Ok at the hash check, without extraction, and no slot's stored
\* hash or stored schedule changes (nor the disk, nor the database tasks).
C3_UnchangedOnHashMatch ==
    [][\A t \in TaskIds :
          (/\ tasks[t].pc = "check"
           /\ tasks'[t].pc # "check"
           /\ hashes[tasks[t].day] = Some(Sha512Hex(tasks[t].pdf)))
          => /\ tasks'[t].pc = "done"
             /\ last'[tasks[t].day] =
                   Some([pdf |-> tasks[t].pdf, exit |-> "check", result |-> "Ok"])
             /\ hashes' = hashes
             /\ jsons' = jsons
             /\ disk' = disk
             /\ dbPending' = dbPending]_vars

\* C3 witness: a call of update has ended Ok at the hash check
C3_Witness ==
    \E d \in Schooldays :
       /\ last[d] # None
       /\ last[d][1].exit = "check"
       /\ last[d][1].result = "Ok"

\* C4: of two successive calls of update for one slot with the same bytes,
\* the first of which succeeded, the second ends Ok at the hash check and the
\* slot holds the entry the first call stored: its hash, and the schedule
\* built from those bytes, unchanged.
C4_SecondCallUnchanged ==
    [][\A t \in TaskIds :
          (/\ InUpdate(t)
           /\ tasks'[t].pc = "done"
           /\ hist[t].prev =
                 Some([pdf |-> tasks[t].pdf, exit |-> "cleanup", result |-> "Ok"]))
          => /\ hist[t].hash = Some(Sha512Hex(tasks[t].pdf))
             /\ hist[t].json # None
             /\ last'[tasks[t].day] =
                   Some([pdf |-> tasks[t].pdf, exit |-> "check", result |-> "Ok"])
             /\ jsons'[tasks[t].day] = hist[t].json
             /\ jsonSource'[tasks[t].day] = Some(tasks[t].pdf)]_vars

\* C4 witness: both calls were made and the second ended at the hash check,
\* the slot holding the schedule of the first
C4_Witness ==
    \E d \in Schooldays :
       /\ NoUpdateRunning
       /\ last[d] # None
       /\ last[d][1].exit = "check"
       /\ jsons[d] # None
       /\ jsonSource[d] = Some(last[d][1].pdf)
       /\ hashes[d] = Some(Sha512Hex(last[d][1].pdf))

\* whether task t is past the hash check, on the way to its write of jsons
PastCheck(t) ==
    tasks[t].pc \in {"hashes_write", "put_hash", "temp", "extract",
                     "jsons_write", "put_json"}

\* C5: two updates of one slot with identical bytes are never both past the
\* hash-mismatch check (running extraction, about to write) at once.
C5_SameSlotUpdatesSerialized ==
    \A t, u \in TaskIds :
       (/\ t # u
        /\ tasks[t].day = tasks[u].day
        /\ tasks[t].pdf = tasks[u].pdf)
       => ~(PastCheck(t) /\ PastCheck(u))

\* C6: the stored hash of a slot that has a stored schedule is the hash of
\* the bytes that schedule was built from.
C6_HashIsOfStoredSchedule ==
    \A d \in Schooldays :
       jsons[d] # None => hashes[d] = Some(Sha512Hex(jsonSource[d][1]))

\* C7: whatever the tasks end with, every iteration of the loop is followed
\* by the next, and every task the loop spawns ends.
C7_LoopTicksAndTasksEnd ==
    /\ \A k \in 0..(MaxTicks - 1) : (counter = k) ~> (counter = k + 1)
    /\ <>(\A t \in TaskIds : tasks[t].pc = "done")

\* C7 witness: a call of update has panicked while the call for another
\* slot is still under way and the loop has iterations left to run
C7_Witness ==
    \E t, u \in TaskIds :
       /\ tasks[t].pc = "done"
       /\ last[tasks[t].day] # None
       /\ last[tasks[t].day][1].result = "Panic"
       /\ InUpdate(u)
       /\ tasks[u].day # tasks[t].day
       /\ counter < MaxTicks

\* C8: when a call of update that created the temporary directory and file
\* returns, from the extraction or after the removal succeeded, neither is
\* on disk.
C8_TempRemovedOnReturn ==
    [][\A t \in TaskIds :
          (\/ Returns(t, "extract")
           \/ Returns(t, "cleanup") /\ last'[tasks[t].day][1].result = "Ok")
          => TempDir(t) \notin disk' /\ TempFile(t) \notin disk']_vars

\* the phases of a task in which it fetches, extracts or removes its files
OutsideLocks == {"unspawned", "fetch", "temp", "extract", "cleanup", "done"}

\* C9: a task in its fetch or extraction phase holds no guard of either
\* lock, and a task can take its next step whenever the tasks of the other
\* slots are in those phases and no task of its own slot holds a guard.
C9_SlotsDoNotBlockEachOther ==
    /\ \A a \in TaskIds :
          tasks[a].pc \in OutsideLocks =>
             ~Holds(a, hashesLock) /\ ~Holds(a, jsonsLock)
    /\ \A b \in TaskIds :
          (/\ tasks[b].pc \notin {"unspawned", "done"}
           /\ \A a \in TaskIds \ {b} :
                 IF tasks[a].day # tasks[b].day
                 THEN tasks[a].pc \in OutsideLocks
                 ELSE ~Holds(a, hashesLock) /\ ~Holds(a, jsonsLock))
          => ENABLED TaskStep(b)

\* C9 witness: one task extracts while a task of another slot holds the
\* write guard of hashes and is about to insert
C9_Witness ==
    \E a, b \in TaskIds :
       /\ tasks[a].day # tasks[b].day
       /\ tasks[a].pc = "extract"
       /\ tasks[b].pc = "put_hash"
       /\ hashesLock.writer = Some(b)

\* the step in which request l is answered
Answered(l) == lookups'[l] # lookups[l] /\ lookups'[l].pc = "done"

\* C11: the endpoint answers a request for a slot without a stored schedule
\* with 204 and Retry-After: 120, and a request for a slot with a stored
\* schedule with exactly that schedule.
C11_LookupAnswersFromCache ==
    [][\A l \in LookupIds :
          (Answered(l) /\ lookups'[l].via = "endpoint")
          => lookups'[l].response =
                Some(IF jsons[lookups'[l].day] = None
                     THEN NoContent
                     ELSE OkJson(jsons[lookups'[l].day][1]))]_vars

\* C12: no slot has a stored schedule or hash at startup, and a slot that
\* has a stored schedule has one after every step.
C12_PresenceIsMonotone ==
    /\ \A d \in Schooldays : jsons[d] = None /\ hashes[d] = None
    /\ [][\A d \in Schooldays : jsons[d] # None => jsons'[d] # None]_vars

\* C12 witness: a slot holds a schedule and the last call of update for it
\* failed in the extraction
C12_Witness ==
    \E d \in Schooldays :
       /\ jsons[d] # None
       /\ last[d] # None
       /\ last[d][1].exit = "extract"
       /\ last[d][1].result # "Ok"

\* C13: the step in which an insert of update_db fails changes no stored
\* schedule or hash, no task's position or result and no lock; and a task
\* whose insert is pending or has failed can take the write lock of jsons
\* when it is free, and store its schedule when it holds the lock.
C13_AuditFailureOnlyLogged ==
    /\ [][\A t \in TaskIds :
             (t \notin dbFailed /\ t \in dbFailed')
             => /\ jsons' = jsons /\ jsonSource' = jsonSource
                /\ hashes' = hashes
                /\ tasks' = tasks /\ last' = last
                /\ hashesLock' = hashesLock /\ jsonsLock' = jsonsLock]_vars
    /\ [](\A t \in dbPending \cup dbFailed :
             /\ (tasks[t].pc = "jsons_write" /\ CanWrite(jsonsLock))
                   => ENABLED AcquireJsonsWrite(t)
             /\ tasks[t].pc = "put_json" => ENABLED PutJson(t))

\* C13 witness: the insert of a task failed before the task stored its
\* schedule, and the task is about to store it
C13_Witness ==
    \E t \in dbFailed : tasks[t].pc = "put_json"

\* the slot that is current on each calendar weekday, as the claim has it
CurrentSlot ==
    [wd \in Weekdays |->
        CASE wd = "Mon" -> "Monday"
          [] wd = "Tue" -> "Tuesday"
          [] wd = "Wed" -> "Wednesday"
          [] wd = "Thu" -> "Thursday"
          [] wd = "Fri" -> "Friday"
          [] wd = "Sat" -> "Monday"
          [] wd = "Sun" -> "Monday"]

\* the order of the slots, Monday after Friday
SlotOrder == <<"Monday", "Tuesday", "Wednesday", "Thursday", "Friday">>

SlotAfter(day) ==
    LET i == CHOOSE k \in DOMAIN SlotOrder : SlotOrder[k] = day
    IN SlotOrder[(i % Len(SlotOrder)) + 1]

\* C14: an iteration of the loop spawns its first task for the slot of the
\* weekday it read, Saturday and Sunday read as Monday, and its second task
\* for the slot after that one; every weekday has exactly one current slot.
C14_TickSelectsCurrentAndNext ==
    /\ [](\A wd \in Weekdays :
             Cardinality({day \in Schooldays : FromWeekday(wd) = day}) = 1)
    /\ [][counter' = counter + 1 =>
             /\ tasks'[2 * counter + 1].pc = "fetch"
             /\ tasks'[2 * counter + 1].day = CurrentSlot[weekday']
             /\ tasks'[2 * counter + 2].pc = "fetch"
             /\ tasks'[2 * counter + 2].day = SlotAfter(CurrentSlot[weekday'])]_vars

\* C14 witness: the loop has run on a Sunday
C14_Witness ==
    /\ weekday = "Sun"
    /\ counter > 0
    /\ tasks[2 * counter - 1].day = "Monday"

\* C15: five applications of next_day to a slot give that slot, and
\* next_day of Friday is Monday.
C15_NextDayFiveCycle ==
    /\ Len(output) = 5 => output[5] = input
    /\ (input = "Friday" /\ Len(output) >= 1) => output[1] = "Monday"

\* C15 witness: next_day was applied five times, starting from Friday
C15_Witness == input = "Friday" /\ Len(output) = 5

\* a row whose first cell begins with the separator marker
IsSeparatorRow(r) == Len(r) > 0 /\ Len(r[1]) > 0 /\ r[1][1] = "-"

\* the block group of row k of tbl (k >= 2): the separator rows before it
GroupOfRow(tbl, k) ==
    Cardinality({j \in 2..(k - 1) : IsSeparatorRow(tbl[j])})

\* a table as the reconstruction expects it: a header of distinct classes,
\* every row as wide as the header, and at least five block groups, each
\* closed by a separator row
WellFormed(tbl) ==
    /\ Len(tbl) >= 1
    /\ Len(tbl[1]) >= 2
    /\ \A i, j \in 2..Len(tbl[1]) : tbl[1][i] = tbl[1][j] => i = j
    /\ \A k \in 2..Len(tbl) : Len(tbl[k]) = Len(tbl[1])
    /\ Cardinality({k \in 2..Len(tbl) : IsSeparatorRow(tbl[k])}) >= 5

\* lines joined by line breaks, none before the first
RECURSIVE JoinLines(_)
JoinLines(parts) ==
    IF Len(parts) = 1 THEN parts[1]
    ELSE parts[1] \o <<"\n">> \o JoinLines(Tail(parts))

\* what block g of the class in column i (cell i + 1) is to hold
ExpectedBlock(tbl, g, i) ==
    LET rows == SelectSeq([k \in 1..Len(tbl) |-> k],
                          LAMBDA k : k >= 2 /\ GroupOfRow(tbl, k) = g)
        cells == [n \in 1..Len(rows) |-> tbl[rows[n]][i + 1]]
        parts == SelectSeq(cells, LAMBDA c : c # <<>>)
    IN IF parts = <<>> THEN None ELSE Some(JoinLines(parts))

\* C16: in a well-formed table, block g of every class is the non-empty
\* cells of the class's column over the rows of group g, the separator row
\* included, in row order and joined by line breaks, or absent when all
\* those cells are empty.
C16_BlockIsJoinedCells ==
    (output # None /\ WellFormed(input))
    => /\ output[1].tag = "Ok"
       /\ \A i \in 1..(Len(input[1]) - 1) :
             /\ input[1][i + 1] \in DOMAIN output[1].val
             /\ \A g \in 0..4 :
                   output[1].val[input[1][i + 1]][g] = ExpectedBlock(input, g, i)

\* C16 witness: a well-formed table was reconstructed in which one group
\* has two rows, the second its separator row, both with text for the first
\* class and none for the second
C16_Witness ==
    /\ output # None
    /\ WellFormed(input)
    /\ \E k \in 2..(Len(input) - 1) :
          /\ ~IsSeparatorRow(input[k])
          /\ IsSeparatorRow(input[k + 1])
          /\ input[k][2] # <<>> /\ input[k + 1][2] # <<>>
          /\ input[k][3] = <<>> /\ input[k + 1][3] = <<>>
          /\ GroupOfRow(input, k) < 5

\* the class names the header of tbl declares
ClassesOf(tbl) == {tbl[1][i] : i \in 2..Len(tbl[1])}

\* the last table of the document that declares class c
LastTableWith(doc, c) ==
    CHOOSE k \in DOMAIN doc :
       /\ c \in ClassesOf(doc[k])
       /\ \A j \in DOMAIN doc : c \in ClassesOf(doc[j]) => j <= k

\* C17: the classes of a schedule built from several tables are the
\* classes of all the tables, and each class has the blocks that the last
\* table declaring it gives it, nothing of an earlier table.
C17_LastTableWins ==
    output # None
    => /\ output[1].tag = "Ok"
       /\ DOMAIN output[1].val.entries =
             UNION {ClassesOf(input[k]) : k \in DOMAIN input}
       /\ \A c \in DOMAIN output[1].val.entries :
             output[1].val.entries[c] =
                TableToSubstitutions(input[LastTableWith(input, c)]).val[c]

\* C17 witness: two tables declare one class, the earlier with text for it
\* and the later without
C17_Witness ==
    /\ output # None
    /\ Len(input) = 2
    /\ \E c \in ClassesOf(input[1]) \cap ClassesOf(input[2]) :
          /\ TableToSubstitutions(input[1]).val[c][0] # None
          /\ TableToSubstitutions(input[2]).val[c][0] = None
          /\ output[1].val.entries[c][0] = None

\* whether year y has a 29th of February
LeapYear(y) == y % 400 = 0 \/ (y % 4 = 0 /\ y % 100 # 0)

\* the days of month m of year y
MonthLength(y, m) ==
    <<31, IF LeapYear(y) THEN 29 ELSE 28, 31, 30, 31, 30, 31, 31, 30, 31, 30, 31>>[m]

RECURSIVE DaysBeforeMonth(_, _)
DaysBeforeMonth(y, m) ==
    IF m = 1 THEN 0 ELSE DaysBeforeMonth(y, m - 1) + MonthLength(y, m - 1)

\* the days from 1 January 1970 to the calendar date, counted year by year
DaysSinceEpoch(y, m, d) ==
    365 * (y - 1970) + Cardinality({k \in 1970..(y - 1) : LeapYear(k)})
       + DaysBeforeMonth(y, m) + (d - 1)

\* C18: the last ", " segment of the line of the label "Datum: " is read as
\* day.month.year, and the issue date is midnight of that calendar date in
\* the local zone, as epoch milliseconds.
C18_IssueDateIsLocalMidnight ==
    (output # None /\ input.day <= MonthLength(input.year, input.month))
    => /\ output[1].tag = "Ok"
       /\ output[1].val.secs =
             DaysSinceEpoch(input.year, input.month, input.day) * 86400
                - input.offset
       /\ output[1].val.ms = 0

\* C18 witness: the date of a document with two commas before it was read
\* in a zone east of UTC, day and month differing
C18_Witness ==
    /\ output # None
    /\ output[1].tag = "Ok"
    /\ input.offset > 0
    /\ input.day = 3 /\ input.month = 2 /\ input.year = 2025
    /\ Len(Split(input.text, <<",", " ">>)) > 3

\* the places at which a task waits for a lock
Requesting == {"hashes_read", "hashes_write", "jsons_write"}

\* C19: a task that requests a lock holds no guard; a guard is held only
\* over the one step that uses it, and that step can always be taken; and
\* while any task is under way, some task or request can take a step.
C19_NoLockHeldWhileRequesting ==
    /\ \A t \in TaskIds :
          /\ tasks[t].pc \in Requesting
                => ~Holds(t, hashesLock) /\ ~Holds(t, jsonsLock)
          /\ Holds(t, hashesLock)
                => /\ tasks[t].pc \in {"check", "put_hash"}
                   /\ ~Holds(t, jsonsLock)
                   /\ ENABLED (CheckHash(t) \/ PutHash(t))
          /\ Holds(t, jsonsLock)
                => tasks[t].pc = "put_json" /\ ENABLED PutJson(t)
    /\ \A l \in LookupIds :
          /\ ~Holds(l, hashesLock)
          /\ Holds(l, jsonsLock)
                => lookups[l].pc = "jsons_read" /\ ENABLED GetJson(l)
    /\ (\E t \in TaskIds : tasks[t].pc \notin {"unspawned", "done"})
          => \/ \E t \in TaskIds : ENABLED TaskStep(t)
             \/ \E l \in LookupIds : ENABLED LookupStep(l)

\* C19 witness: a task waits for the write lock of jsons while get_json
\* holds a read guard of it, and another task holds the write guard of
\* hashes
C19_Witness ==
    \E t, u \in TaskIds, l \in LookupIds :
       /\ tasks[t].pc = "jsons_write"
       /\ Holds(l, jsonsLock)
       /\ tasks[u].pc = "put_hash"

\* C20: a slot that has a stored schedule has a stored hash.
C20_ScheduleImpliesHash ==
    \A d \in Schooldays : jsons[d] # None => hashes[d] # None

\* C20 witness: a slot holds a schedule, and the hash of other bytes than
\* those the schedule was built from
C20_Witness ==
    \E d \in Schooldays :
       /\ jsons[d] # None
       /\ hashes[d] # None
       /\ hashes[d] # Some(Sha512Hex(jsonSource[d][1]))

\* the iteration of the loop that spawned task t, counted from 1
TickOf(t) == (t + 1) \div 2

\* C21: the two tasks that one iteration of the loop spawns are for two
\* different slots, so two tasks that are inside update for the same slot at
\* the same time were spawned by different iterations.
C21_TickTasksTargetDifferentSlots ==
    /\ \A k \in 1..MaxTicks :
          tasks[2 * k - 1].pc # "unspawned"
             => /\ tasks[2 * k].pc # "unspawned"
                /\ tasks[2 * k - 1].day # tasks[2 * k].day
    /\ \A t, u \in TaskIds :
          (/\ t # u
           /\ InUpdate(t)
           /\ InUpdate(u)
           /\ tasks[t].day = tasks[u].day)
          => TickOf(t) # TickOf(u)

\* C21 witness: the iteration of a Friday spawned tasks for Friday and
\* Monday, and two tasks of different iterations are inside update for the
\* same slot
C21_Witness ==
    /\ \E k \in 1..MaxTicks :
          /\ tasks[2 * k - 1].day = "Friday"
          /\ tasks[2 * k].day = "Monday"
    /\ \E t, u \in TaskIds :
          /\ TickOf(t) # TickOf(u)
          /\ InUpdate(t)
          /\ InUpdate(u)
          /\ tasks[t].day = tasks[u].day

====
